---- MODULE Spec2Model ----
(***************************************************************************)
(* Jet tracking: the streaming monitor of testscreen.py (StatusThread,     *)
(* its helpers skimmer and div_with_try) and the pure functions of the     *)
(* offline calibration script jt_cal.py.                                   *)
(*                                                                         *)
(* Numbers.  Python floats are modelled as exact rationals <<n, d>> in     *)
(* lowest terms with d >= 1.  The value None (a key missing from the       *)
(* reading, a non-numeric reading) is <<0, 0>>.                            *)
(***************************************************************************)
EXTENDS Integers, Sequences, FiniteSets, TLC

(***************************************************************************)
(* Bounds of the model.  buffer_size and notification_tolerance are the    *)
(* program's 300 and 100 (testscreen.py lines 132 and 140) scaled down;    *)
(* every formula below is stated in terms of the two names.                *)
(***************************************************************************)
buffer_size == 2
notification_tolerance == 0
MaxGuiEvents == 2

(* calibrate's two deadlines, 2 s and 3 s after its start, in ticks of its
   sleep of 1/2 s *)
Phase1Ticks == 4
Phase2Ticks == 6

---------------------------------------------------------------------------
(* Rational arithmetic *)

None == <<0, 0>>
Zero == <<0, 1>>

IsNum(x) == x[2] # 0

Abs(n) == IF n < 0 THEN -n ELSE n

RECURSIVE GCD(_, _)
GCD(a, b) == IF b = 0 THEN a ELSE GCD(b, a % b)

(* n/d in lowest terms, for values n and d *)
Lowest(n, d) ==
    LET g == GCD(Abs(n), Abs(d))
        s == IF d < 0 THEN -1 ELSE 1
    IN  <<(s * n) \div g, (s * d) \div g>>

(* The operators below take each argument's value once ({e : x \in {a}} binds x
   to the value of a), so that nested arithmetic is evaluated once. *)
Norm(n, d) == CHOOSE r \in {Lowest(x, y) : x \in {n}, y \in {d}} : TRUE

Num(n) == <<n, 1>>

RatAdd(a, b) ==
    CHOOSE r \in {Norm(x[1] * y[2] + y[1] * x[2], x[2] * y[2]) : x \in {a}, y \in {b}} : TRUE
RatSub(a, b) ==
    CHOOSE r \in {Norm(x[1] * y[2] - y[1] * x[2], x[2] * y[2]) : x \in {a}, y \in {b}} : TRUE
RatMul(a, b) ==
    CHOOSE r \in {Norm(x[1] * y[1], x[2] * y[2]) : x \in {a}, y \in {b}} : TRUE
RatLess(a, b) == a[1] * b[2] < b[1] * a[2]
RatGeq(a, b) == ~RatLess(a, b)

(* the sum of the first n entries of L, and of all of them *)
RECURSIVE RatSumTo(_, _)
RatSumTo(L, n) == IF n = 0 THEN Zero ELSE RatAdd(RatSumTo(L, n - 1), L[n])

RatSum(L) == CHOOSE r \in {RatSumTo(s, Len(s)) : s \in {L}} : TRUE

(* Python's v1 / v2: the exception it raises, and its value when it raises none *)
truediv_exc(v1, v2) ==
    IF ~IsNum(v1) \/ ~IsNum(v2) THEN "TypeError"
    ELSE IF v2[1] = 0 THEN "ZeroDivisionError"
    ELSE "none"

truediv(v1, v2) ==
    CHOOSE r \in {Norm(x[1] * y[2], x[2] * y[1]) : x \in {v1}, y \in {v2}} : TRUE

(* statistics.mean and statistics.stdev: exception, then value *)
mean_exc(L) ==
    IF Len(L) = 0 THEN "StatisticsError"
    ELSE IF \E i \in 1..Len(L) : ~IsNum(L[i]) THEN "TypeError"
    ELSE "none"

mean(L) == truediv(RatSum(L), Num(Len(L)))

stdev_exc(L) ==
    IF Len(L) < 2 THEN "StatisticsError"
    ELSE IF \E i \in 1..Len(L) : ~IsNum(L[i]) THEN "TypeError"
    ELSE "none"

Square(a) == RatMul(a, a)

variance(L) ==
    CHOOSE r \in {truediv(RatSum([i \in 1..Len(s) |-> Square(RatSub(s[i], m))]),
                          Num(Len(s) - 1)) : s \in {L}, m \in {mean(L)}} : TRUE

(* integer square root, exact on perfect squares *)
ISqrt(n) == CHOOSE s \in 0..n : s * s <= n /\ (s + 1) * (s + 1) > n

stdev(L) == CHOOSE r \in {Norm(ISqrt(var[1]), ISqrt(var[2])) : var \in {variance(L)}} : TRUE

---------------------------------------------------------------------------
(* The streaming monitor: StatusThread and the GUI handlers that drive it *)

AvgKeys == {"average i0", "average diff", "average ratio", "time"}
FlagKeys == {"low intensity", "missed shot", "dropped shot"}
BufKeys == {"i0", "diff", "ratio", "time"}
Quantities == {"i0", "diff", "ratio"}

Readings ==
    {[gatt |-> Num(2), diff |-> Num(2)], [gatt |-> Num(-1), diff |-> Num(-1)],
     [gatt |-> Zero, diff |-> Num(-1)], [gatt |-> Num(-1), diff |-> Num(2)],
     [gatt |-> Num(2), diff |-> Zero], [gatt |-> None, diff |-> Num(2)],
     [gatt |-> Num(2), diff |-> None]}

(* the values the source may come to hold while a calibration pass sleeps *)
Drift == {[gatt |-> Num(2), diff |-> Num(2)], [gatt |-> Num(-1), diff |-> Num(2)]}

(* values delivered on the sigmaval / nsampval / samprate signals *)
SigmaValues == {Num(2)}
NsampValues == {1, 2}
SamprateValues == {2}

NoStatus == <<"", "">>
NoEmit == [status |-> NoStatus, avevalues |-> FALSE, buffers |-> FALSE,
           calibration_value |-> FALSE]

VARIABLES
    mode, count, calibrated, calibration_values, nsamp, sigma, samprate,
    averages, flaggedEvents, buffers,
    thread,          \* the QThread: "idle", "run" (top of the loop of run),
                     \* "cal1", "cal2" (inside the two loops of calibrate),
                     \* "finished", "crashed" (an exception left run)
    interruption,    \* QThread's interruption request flag
    exc,             \* the exception that left run, "none" otherwise
    gui,             \* the GUI thread: "ready", or "waiting" inside worker.wait()
    gui_events,      \* the number of GUI events handled so far
    new_values,      \* run's reading of this iteration; calibrate's argument v
    cal_values,      \* calibrate's local lists of samples
    timer,           \* calibrate's local timer: the clock when the pass started
    clock,           \* time.time() - self.timer, in ticks of one sleep
    emitted,         \* the signals emitted by the last step
    step,            \* the last step taken
    source,          \* what the live value source holds: what a read returns
    call, ret,       \* a call of a pure function and what it returned
    pc,              \* each caller of ValueReader(...): its position in __call__
    lock,            \* the module's lock: the caller holding it, 0 when free
    _instances,      \* Singleton._instances[ValueReader]: 0 when absent
    constructed,     \* how many times ValueReader.__init__ has run
    instance         \* what each caller's ValueReader(...) returned, 0 before

monitor_vars ==
    <<mode, count, calibrated, calibration_values, nsamp, sigma, samprate,
      averages, flaggedEvents, buffers, thread, interruption, exc, gui,
      gui_events, new_values, cal_values, timer, clock, emitted, step, source>>

singleton_vars == <<pc, lock, _instances, constructed, instance>>

vars == <<mode, count, calibrated, calibration_values, nsamp, sigma, samprate,
          averages, flaggedEvents, buffers, thread, interruption, exc, gui,
          gui_events, new_values, cal_values, timer, clock, emitted, step, source,
          call, ret, pc, lock, _instances, constructed, instance>>

(* the ingestions explored: enough to fill the buffers once and then to flag
   every shot of a window *)
MaxCount == 2 * buffer_size

Zeros(n) == [i \in 1..n |-> Zero]

Last(d) == d[Len(d)]

(* an append that never evicts *)
deque_append_unbounded(d, x, maxlen) == Append(d, x)

(* collections.deque(..., maxlen).append *)
deque_append(d, x, maxlen) ==
    IF Len(d) >= maxlen THEN Append(Tail(d), x) ELSE Append(d, x)

(* dict.get *)
Get(d, key) == IF key \in DOMAIN d THEN d[key] ELSE None

i0_rdbutton_selection == "gatt"

NoCall == [fn |-> "none"]
NoRet == [exc |-> "pending"]

NoBands == [q \in Quantities |-> [mean |-> Zero, stdev |-> Zero]]

(* StatusThread.__init__, with the two fields the other specifications vary *)
MonitorInit(cal, cv) ==
    /\ mode = "running"
    /\ count = 0
    /\ calibrated = cal
    /\ calibration_values = cv
    /\ nsamp = 50
    /\ sigma = Num(1)
    /\ samprate = 50
    /\ averages = [k \in AvgKeys |-> Zeros(buffer_size)]
    /\ flaggedEvents = [k \in FlagKeys |-> Zeros(buffer_size)]
    /\ buffers = [k \in BufKeys |-> Zeros(buffer_size)]
    /\ thread = "idle"
    /\ interruption = FALSE
    /\ exc = "none"
    /\ gui = "ready"
    /\ gui_events = 0
    /\ new_values = [gatt |-> None, diff |-> None]
    /\ cal_values = << << >>, << >>, << >> >>
    /\ timer = 0
    /\ clock = 0
    /\ emitted = NoEmit
    /\ step = "init"
    /\ source = [gatt |-> None, diff |-> None]

(* the callers of ValueReader(...) *)
MaxCallers == 3
Callers == 1..MaxCallers

(* JetTracking.__init__ has returned: every ValueReader(...) has returned the
   one instance *)
SingletonConstructed ==
    /\ pc = [c \in Callers |-> "done"]
    /\ lock = 0
    /\ _instances = 1
    /\ constructed = 1
    /\ instance = [c \in Callers |-> 1]

Init ==
    /\ MonitorInit(FALSE, NoBands)
    /\ call = NoCall /\ ret = NoRet
    /\ SingletonConstructed

(* skimmer(key, oldlist, checklist): the entries of oldlist at the indices where
   checklist[key] holds 0 *)
RECURSIVE skim_from(_, _, _)
skim_from(i, oldlist, check) ==
    IF i > Len(check) THEN << >>
    ELSE IF check[i] = Zero THEN <<oldlist[i]>> \o skim_from(i + 1, oldlist, check)
    ELSE skim_from(i + 1, oldlist, check)

skimmer(key, oldlist, checklist) == skim_from(1, oldlist, checklist[key])

(* a fallback that returns the dividend instead of 0 *)
div_with_try_keeps_v1(v1, v2) ==
    IF truediv_exc(v1, v2) \in {"TypeError", "ZeroDivisionError"} THEN v1
    ELSE truediv(v1, v2)

div_with_try(v1, v2) ==
    IF truediv_exc(v1, v2) \in {"TypeError", "ZeroDivisionError"} THEN Zero
    ELSE truediv(v1, v2)

(* np.count_nonzero *)
count_nonzero(d) == Cardinality({i \in 1..Len(d) : d[i] # Zero})

(* a status check that looks at the dropped shots before the missed shots *)
check_status_update_dropped_first(cal, flags, tolerance) ==
    IF cal THEN
        IF count_nonzero(flags["dropped shot"]) > tolerance
        THEN <<"lots of dropped shots", "yellow">>
        ELSE IF count_nonzero(flags["missed shot"]) > tolerance
        THEN <<"warning, missed shots, realigning in **", "red">>
        ELSE IF count_nonzero(flags["low intensity"]) > tolerance
        THEN <<"low intensity, realigning in ***", "orange">>
        ELSE <<"everything is good", "green">>
    ELSE <<"not calibrated", "orange">>

(* a status check that does not look at the calibrated flag *)
check_status_update_ungated(cal, flags, tolerance) ==
    IF count_nonzero(flags["missed shot"]) > tolerance
    THEN <<"warning, missed shots, realigning in **", "red">>
    ELSE IF count_nonzero(flags["dropped shot"]) > tolerance
    THEN <<"lots of dropped shots", "yellow">>
    ELSE IF count_nonzero(flags["low intensity"]) > tolerance
    THEN <<"low intensity, realigning in ***", "orange">>
    ELSE <<"everything is good", "green">>

(* check_status_update: the status it emits *)
check_status_update(cal, flags, tolerance) ==
    IF cal THEN
        IF count_nonzero(flags["missed shot"]) > tolerance
        THEN <<"warning, missed shots, realigning in **", "red">>
        ELSE IF count_nonzero(flags["dropped shot"]) > tolerance
        THEN <<"lots of dropped shots", "yellow">>
        ELSE IF count_nonzero(flags["low intensity"]) > tolerance
        THEN <<"low intensity, realigning in ***", "orange">>
        ELSE <<"everything is good", "green">>
    ELSE <<"not calibrated", "orange">>

(* the threshold of event_flagging: mean - sigma*stdev *)
threshold(cv, sg, q) == RatSub(cv[q].mean, RatMul(sg, cv[q].stdev))

(* event_flagging: the flagged-event buffers after it *)
event_flagging(bufs, flags, cv, sg) ==
    [flags EXCEPT
        !["low intensity"] =
            IF RatLess(Last(bufs["ratio"]), threshold(cv, sg, "ratio"))
            THEN deque_append(@, Last(bufs["ratio"]), buffer_size)
            ELSE deque_append(@, Zero, buffer_size),
        !["dropped shot"] =
            IF RatLess(Last(bufs["i0"]), threshold(cv, sg, "i0"))
            THEN deque_append(@, Last(bufs["i0"]), buffer_size)
            ELSE deque_append(@, Zero, buffer_size),
        !["missed shot"] =
            IF RatLess(Last(bufs["diff"]), threshold(cv, sg, "diff"))
            THEN deque_append(@, Last(bufs["i0"]), buffer_size)
            ELSE deque_append(@, Zero, buffer_size)]

(* the value run appends to the ratio buffer, and the exception of that statement *)
run_ratio_exc(bufs) == truediv_exc(Last(bufs["i0"]), Last(bufs["diff"]))
run_ratio(bufs) == truediv(Last(bufs["i0"]), Last(bufs["diff"]))

(* One iteration of the loop of run in running mode, reading r; a statement
   that raises ends run with what the statements before it have done. *)
run_ingest(r) ==
    /\ thread = "run" /\ ~interruption
    /\ mode = "running"
    /\ count < MaxCount
    /\ LET i0 == Get(r, i0_rdbutton_selection)
           df == Get(r, "diff")
           b1 == [buffers EXCEPT !["i0"] = deque_append(@, i0, buffer_size),
                                 !["diff"] = deque_append(@, df, buffer_size)]
           tm == Num(clock)
           b2 == [b1 EXCEPT !["ratio"] = deque_append(@, run_ratio(b1), buffer_size),
                            !["time"] = deque_append(@, tm, buffer_size)]
           f2 == IF count < buffer_size THEN flaggedEvents
                 ELSE event_flagging(b2, flaggedEvents, calibration_values, sigma)
           due == (count + 1) % nsamp = 0
           sk(key) == skimmer("dropped shot", b2[key], f2)
           a3 == [averages EXCEPT
                    !["average i0"] = deque_append(@, mean(sk("i0")), buffer_size),
                    !["average diff"] = deque_append(@, mean(sk("diff")), buffer_size),
                    !["average ratio"] = deque_append(@, mean(sk("ratio")), buffer_size),
                    !["time"] = deque_append(@, tm, buffer_size)]
           st == check_status_update(calibrated, f2, notification_tolerance)
           res ==
               IF run_ratio_exc(b1) # "none"
               THEN [b |-> b1, f |-> flaggedEvents, a |-> averages, em |-> NoEmit,
                     e |-> run_ratio_exc(b1)]
               ELSE IF nsamp = 0
               THEN [b |-> b2, f |-> f2, a |-> averages, em |-> NoEmit,
                     e |-> "ZeroDivisionError"]
               ELSE IF due /\ mean_exc(sk("i0")) # "none"
               THEN [b |-> b2, f |-> f2, a |-> averages, em |-> NoEmit,
                     e |-> mean_exc(sk("i0"))]
               ELSE [b |-> b2, f |-> f2,
                     a |-> IF due THEN a3 ELSE averages,
                     em |-> [status |-> IF due THEN st ELSE NoStatus, avevalues |-> due,
                             buffers |-> TRUE, calibration_value |-> FALSE],
                     e |-> IF samprate = 0 THEN "ZeroDivisionError" ELSE "none"]
       IN  \E out \in {res} :
           /\ new_values' = r
           /\ count' = count + 1
           /\ buffers' = out.b
           /\ flaggedEvents' = out.f
           /\ averages' = out.a
           /\ emitted' = out.em
           /\ exc' = out.e
           /\ thread' = IF out.e = "none" THEN "run" ELSE "crashed"
           /\ clock' = IF out.e = "none" THEN clock + 1 ELSE clock
    /\ step' = "run_ingest"
    /\ source' = r
    /\ UNCHANGED <<call, ret, singleton_vars, gui_events, mode, calibrated, calibration_values, nsamp, sigma, samprate,
                   interruption, gui, cal_values, timer>>

(* the list of calibrate's cal_values that holds the samples of a quantity *)
CalIndex(q) == CASE q = "i0" -> 1 [] q = "diff" -> 2 [] q = "ratio" -> 3

(* the exception raised by the two assignments mean(L), stdev(L) *)
band_exc(L) == IF mean_exc(L) # "none" THEN mean_exc(L) ELSE stdev_exc(L)

(* calibrate's six assignments of a mean and a stdev, in the order i0, diff,
   ratio, up to the first statement that raises: the bands afterwards and the
   exception *)
set_bands(cv, cal) ==
    [cv |-> [q \in Quantities |->
                IF \E k \in 1..(CalIndex(q) - 1) : band_exc(cal[k]) # "none" THEN cv[q]
                ELSE IF mean_exc(cal[CalIndex(q)]) # "none" THEN cv[q]
                ELSE IF stdev_exc(cal[CalIndex(q)]) # "none"
                THEN [cv[q] EXCEPT !.mean = mean(cal[CalIndex(q)])]
                ELSE [mean |-> mean(cal[CalIndex(q)]), stdev |-> stdev(cal[CalIndex(q)])]],
     e |-> IF band_exc(cal[1]) # "none" THEN band_exc(cal[1])
           ELSE IF band_exc(cal[2]) # "none" THEN band_exc(cal[2])
           ELSE band_exc(cal[3])]

NoSamples == << << >>, << >>, << >> >>

(* an iteration in calibration mode that counts its reading as a sample *)
run_calibrate_counting(r) ==
    /\ thread = "run" /\ ~interruption
    /\ mode = "calibration"
    /\ new_values' = r
    /\ timer' = clock
    /\ cal_values' = NoSamples
    /\ thread' = "cal1"
    /\ emitted' = NoEmit
    /\ step' = "run_calibrate"
    /\ source' = r
    /\ count' = count + 1
    /\ UNCHANGED <<call, ret, singleton_vars, gui_events, mode, calibrated, calibration_values, nsamp, sigma, samprate,
                   averages, flaggedEvents, buffers, interruption, exc, gui, clock>>

(* An iteration of the loop of run in calibration mode: calibrate(new_values)
   starts. *)
run_calibrate(r) ==
    /\ thread = "run" /\ ~interruption
    /\ mode = "calibration"
    /\ new_values' = r
    /\ timer' = clock
    /\ cal_values' = NoSamples
    /\ thread' = "cal1"
    /\ emitted' = NoEmit
    /\ step' = "run_calibrate"
    /\ source' = r
    /\ UNCHANGED <<call, ret, singleton_vars, gui_events, mode, count, calibrated, calibration_values, nsamp, sigma, samprate,
                   averages, flaggedEvents, buffers, interruption, exc, gui, clock>>

(* One iteration of calibrate's first loop, with its sleep of one tick, after
   which the source holds the value held. *)
calibrate_sample1(held) ==
    /\ thread = "cal1"
    /\ clock - timer < Phase1Ticks
    /\ cal_values' =
          <<Append(cal_values[1], Get(new_values, i0_rdbutton_selection)),
            Append(cal_values[2], Get(new_values, "diff")),
            Append(cal_values[3],
                   div_with_try(Get(new_values, "diff"), Get(new_values, i0_rdbutton_selection)))>>
    /\ clock' = clock + 1
    /\ emitted' = NoEmit
    /\ step' = "calibrate_sample1"
    /\ source' = held
    /\ UNCHANGED <<call, ret, singleton_vars, gui_events, mode, count, calibrated, calibration_values, nsamp, sigma, samprate,
                   averages, flaggedEvents, buffers, thread, interruption, exc, gui,
                   new_values, timer>>

(* The first deadline has passed: the phase-1 statistics, and print(cal_values).
   The deadlines are wall-clock times: when the thread is stalled here, the
   second deadline has passed as well before the second loop is reached. *)
calibrate_stats1(stalled) ==
    /\ thread = "cal1"
    /\ ~(clock - timer < Phase1Ticks)
    /\ \E st \in {set_bands(calibration_values, cal_values)} :
           /\ calibration_values' = st.cv
           /\ exc' = st.e
           /\ thread' = IF st.e = "none" THEN "cal2" ELSE "crashed"
           /\ cal_values' = IF st.e = "none" THEN NoSamples ELSE cal_values
           /\ clock' = IF st.e = "none" /\ stalled THEN timer + Phase2Ticks ELSE clock
    /\ emitted' = NoEmit
    /\ step' = "calibrate_stats1"
    /\ UNCHANGED <<call, ret, singleton_vars, source, gui_events, mode, count, calibrated, nsamp, sigma, samprate,
                   averages, flaggedEvents, buffers, interruption, gui,
                   new_values, timer>>

(* x >= y of Python: the exception it raises *)
geq_exc(x, y) == IF ~IsNum(x) \/ ~IsNum(y) THEN "TypeError" ELSE "none"

(* the bound of calibrate's second loop: mean - 2*stdev *)
low_bound(cv, q) == RatSub(cv[q].mean, RatMul(Num(2), cv[q].stdev))

(* One iteration of calibrate's second loop, with its sleep of one tick; a
   comparison that raises ends run with the appends made before it. *)
calibrate_sample2(held) ==
    /\ thread = "cal2"
    /\ clock - timer < Phase2Ticks
    /\ LET i0 == Get(new_values, i0_rdbutton_selection)
           df == Get(new_values, "diff")
           ra == Get(new_values, "ratio")
           cv == calibration_values
           e == IF geq_exc(i0, low_bound(cv, "i0")) # "none"
                THEN geq_exc(i0, low_bound(cv, "i0"))
                ELSE IF geq_exc(df, low_bound(cv, "diff")) # "none"
                THEN geq_exc(df, low_bound(cv, "diff"))
                ELSE geq_exc(ra, low_bound(cv, "ratio"))
       IN  /\ exc' = e
           /\ thread' = IF e = "none" THEN "cal2" ELSE "crashed"
           /\ clock' = IF e = "none" THEN clock + 1 ELSE clock
           /\ cal_values' =
                <<IF geq_exc(i0, low_bound(cv, "i0")) = "none"
                     /\ RatGeq(i0, low_bound(cv, "i0"))
                  THEN Append(cal_values[1], i0) ELSE cal_values[1],
                  IF geq_exc(i0, low_bound(cv, "i0")) = "none"
                     /\ geq_exc(df, low_bound(cv, "diff")) = "none"
                     /\ RatGeq(df, low_bound(cv, "diff"))
                  THEN Append(cal_values[2], df) ELSE cal_values[2],
                  IF e = "none" /\ RatGeq(ra, low_bound(cv, "ratio"))
                  THEN Append(cal_values[3], div_with_try(df, i0))
                  ELSE cal_values[3]>>
    /\ emitted' = NoEmit
    /\ step' = "calibrate_sample2"
    /\ source' = held
    /\ UNCHANGED <<call, ret, singleton_vars, gui_events, mode, count, calibrated, calibration_values, nsamp, sigma, samprate,
                   averages, flaggedEvents, buffers, interruption, gui,
                   new_values, timer>>

(* an end of calibrate that sets the flag and the mode whether or not the bands
   could be computed *)
calibrate_stats2_flag_first ==
    /\ thread = "cal2"
    /\ ~(clock - timer < Phase2Ticks)
    /\ \E st \in {set_bands(calibration_values, cal_values)} :
           /\ calibration_values' = st.cv
           /\ exc' = st.e
           /\ thread' = IF st.e = "none" THEN "run" ELSE "crashed"
           /\ calibrated' = TRUE
           /\ mode' = "running"
           /\ emitted' = IF st.e = "none"
                         THEN [NoEmit EXCEPT !.calibration_value = TRUE]
                         ELSE NoEmit
    /\ step' = "calibrate_stats2"
    /\ UNCHANGED <<call, ret, singleton_vars, source, gui_events, count, nsamp, sigma, samprate, averages, flaggedEvents, buffers,
                   interruption, gui, new_values, cal_values, timer, clock>>

(* The second deadline has passed: the phase-2 statistics and the end of
   calibrate. *)
calibrate_stats2 ==
    /\ thread = "cal2"
    /\ ~(clock - timer < Phase2Ticks)
    /\ \E st \in {set_bands(calibration_values, cal_values)} :
           /\ calibration_values' = st.cv
           /\ exc' = st.e
           /\ thread' = IF st.e = "none" THEN "run" ELSE "crashed"
           /\ calibrated' = IF st.e = "none" THEN TRUE ELSE calibrated
           /\ mode' = IF st.e = "none" THEN "running" ELSE mode
           /\ emitted' = IF st.e = "none"
                         THEN [NoEmit EXCEPT !.calibration_value = TRUE]
                         ELSE NoEmit
    /\ step' = "calibrate_stats2"
    /\ UNCHANGED <<call, ret, singleton_vars, source, gui_events, count, nsamp, sigma, samprate, averages, flaggedEvents, buffers,
                   interruption, gui, new_values, cal_values, timer, clock>>

(* The loop of run ends: an interruption was requested. *)
run_exit ==
    /\ thread = "run" /\ interruption
    /\ thread' = "finished"
    /\ interruption' = FALSE
    /\ emitted' = NoEmit
    /\ step' = "run_exit"
    /\ UNCHANGED <<call, ret, singleton_vars, source, gui_events, mode, count, calibrated, calibration_values, nsamp, sigma, samprate,
                   averages, flaggedEvents, buffers, exc, gui, new_values, cal_values, timer,
                   clock>>

---------------------------------------------------------------------------
(* The GUI thread.  An exception that leaves run ends the program. *)

GuiReady == gui = "ready" /\ thread # "crashed" /\ gui_events < MaxGuiEvents
Running == thread \in {"run", "cal1", "cal2"}

(* QThread.start: nothing when the thread is running *)
started(t) == IF t \in {"idle", "finished"} THEN "run" ELSE t

_start ==
    /\ GuiReady
    /\ thread' = started(thread)
    /\ emitted' = NoEmit
    /\ gui_events' = gui_events + 1
    /\ step' = "_start"
    /\ UNCHANGED <<call, ret, singleton_vars, source, mode, count, calibrated, calibration_values, nsamp, sigma, samprate,
                   averages, flaggedEvents, buffers, interruption, exc, gui, new_values,
                   cal_values, timer, clock>>

(* _stop: requestInterruption, then wait blocks the GUI until run has returned *)
_stop ==
    /\ GuiReady
    /\ interruption' = IF Running THEN TRUE ELSE interruption
    /\ gui' = IF Running THEN "waiting" ELSE gui
    /\ emitted' = NoEmit
    /\ gui_events' = gui_events + 1
    /\ step' = "_stop"
    /\ UNCHANGED <<call, ret, singleton_vars, source, mode, count, calibrated, calibration_values, nsamp, sigma, samprate,
                   averages, flaggedEvents, buffers, thread, exc, new_values,
                   cal_values, timer, clock>>

(* a wait that returns while the thread is still running *)
_stop_return_early ==
    /\ gui = "waiting"
    /\ gui' = "ready"
    /\ emitted' = NoEmit
    /\ step' = "_stop_return"
    /\ UNCHANGED <<call, ret, singleton_vars, source, gui_events, mode, count, calibrated, calibration_values, nsamp, sigma, samprate,
                   averages, flaggedEvents, buffers, thread, interruption, exc, new_values,
                   cal_values, timer, clock>>

_stop_return ==
    /\ gui = "waiting"
    /\ thread = "finished"
    /\ gui' = "ready"
    /\ emitted' = NoEmit
    /\ step' = "_stop_return"
    /\ UNCHANGED <<call, ret, singleton_vars, source, gui_events, mode, count, calibrated, calibration_values, nsamp, sigma, samprate,
                   averages, flaggedEvents, buffers, thread, interruption, exc, new_values,
                   cal_values, timer, clock>>

(* _calibrate: the mode signal reaches update_mode, then _start *)
_calibrate ==
    /\ GuiReady
    /\ mode' = "calibration"
    /\ thread' = started(thread)
    /\ emitted' = NoEmit
    /\ gui_events' = gui_events + 1
    /\ step' = "_calibrate"
    /\ UNCHANGED <<call, ret, singleton_vars, source, count, calibrated, calibration_values, nsamp, sigma, samprate,
                   averages, flaggedEvents, buffers, interruption, exc, gui, new_values,
                   cal_values, timer, clock>>

update_sigma(sg) ==
    /\ GuiReady
    /\ sigma' = sg
    /\ emitted' = NoEmit
    /\ gui_events' = gui_events + 1
    /\ step' = "update_sigma"
    /\ UNCHANGED <<call, ret, singleton_vars, source, mode, count, calibrated, calibration_values, nsamp, samprate,
                   averages, flaggedEvents, buffers, thread, interruption, exc, gui, new_values,
                   cal_values, timer, clock>>

update_nsamp(n) ==
    /\ GuiReady
    /\ nsamp' = n
    /\ emitted' = NoEmit
    /\ gui_events' = gui_events + 1
    /\ step' = "update_nsamp"
    /\ UNCHANGED <<call, ret, singleton_vars, source, mode, count, calibrated, calibration_values, sigma, samprate,
                   averages, flaggedEvents, buffers, thread, interruption, exc, gui, new_values,
                   cal_values, timer, clock>>

update_samprate(sr) ==
    /\ GuiReady
    /\ samprate' = sr
    /\ emitted' = NoEmit
    /\ gui_events' = gui_events + 1
    /\ step' = "update_samprate"
    /\ UNCHANGED <<call, ret, singleton_vars, source, mode, count, calibrated, calibration_values, nsamp, sigma,
                   averages, flaggedEvents, buffers, thread, interruption, exc, gui, new_values,
                   cal_values, timer, clock>>

(* every step but the two sampling steps of calibrate *)
MonitorStep ==
    \/ \E r \in Readings : run_ingest(r)
    \/ \E r \in Readings : run_calibrate(r)
    \/ \E stalled \in BOOLEAN : calibrate_stats1(stalled)
    \/ calibrate_stats2
    \/ run_exit
    \/ _start
    \/ _stop
    \/ _stop_return
    \/ _calibrate
    \/ \E sg \in SigmaValues : update_sigma(sg)
    \/ \E n \in NsampValues : update_nsamp(n)
    \/ \E sr \in SamprateValues : update_samprate(sr)

(* the source keeps its value while a calibration pass sleeps *)
Next ==
    \/ MonitorStep
    \/ \E held \in {source} : calibrate_sample1(held)
    \/ \E held \in {source} : calibrate_sample2(held)

Spec == Init /\ [][Next]_vars

(* the steps by which the worker thread goes on with a calibration pass and
   leaves the loop of run *)
ThreadStep ==
    \/ \E held \in {source} : calibrate_sample1(held)
    \/ \E stalled \in BOOLEAN : calibrate_stats1(stalled)
    \/ \E held \in {source} : calibrate_sample2(held)
    \/ calibrate_stats2
    \/ run_exit

(* the scheduler keeps running a worker thread that was asked to stop *)
SpecLive == Spec /\ WF_vars(interruption /\ ThreadStep)

(* the scheduler keeps running the worker thread through a calibration pass *)
CalibrationStep == ThreadStep \/ \E r \in Readings : run_calibrate(r)

SpecFair == Spec /\ WF_vars(CalibrationStep)

(* the source moves while a calibration pass sleeps *)
NextDrift ==
    \/ MonitorStep
    \/ \E held \in Drift : calibrate_sample1(held)
    \/ \E held \in Drift : calibrate_sample2(held)

SpecDrift == Init /\ [][NextDrift]_vars

TypeOK ==
    /\ mode \in {"running", "calibration"}
    /\ thread \in {"idle", "run", "cal1", "cal2", "finished", "crashed"}

(* The monitor once a calibration pass has completed (calibrate's lines 272 to
   279 have run) with one of these bands: the states in which the calibrated
   branch of check_status_update and non-zero thresholds are exercised. *)
Band(m, sd) == [mean |-> Num(m), stdev |-> Num(sd)]

CalibratedBands ==
    {[q \in Quantities |-> IF q = "ratio" THEN Band(3, 1) ELSE Band(1, 1)],
     [q \in Quantities |-> IF q = "ratio" THEN Band(2, 0) ELSE Band(0, 0)]}

InitCalibrated ==
    /\ \E cv \in CalibratedBands : MonitorInit(TRUE, cv)
    /\ call = NoCall
    /\ ret = NoRet
    /\ SingletonConstructed

SpecCalibrated == InitCalibrated /\ [][Next]_vars

---------------------------------------------------------------------------
(* Singleton.__call__: ValueReader(...) called by concurrent callers, one
   action per statement a caller executes; the lock is the module's
   threading.Lock. *)

InitSingleton ==
    /\ MonitorInit(FALSE, NoBands)
    /\ call = NoCall /\ ret = NoRet
    /\ pc = [c \in Callers |-> "call"]
    /\ lock = 0
    /\ _instances = 0
    /\ constructed = 0
    /\ instance = [c \in Callers |-> 0]

(* if cls not in cls._instances: *)
Singleton_check(c) ==
    /\ pc[c] = "call"
    /\ pc' = [pc EXCEPT ![c] = IF _instances = 0 THEN "acquire" ELSE "return"]
    /\ UNCHANGED <<lock, _instances, constructed, instance, call, ret, monitor_vars>>

(* with lock: entered *)
Singleton_acquire(c) ==
    /\ pc[c] = "acquire"
    /\ lock = 0
    /\ lock' = c
    /\ pc' = [pc EXCEPT ![c] = "locked_check"]
    /\ UNCHANGED <<_instances, constructed, instance, call, ret, monitor_vars>>

(* a second test that is not made: the caller constructs whatever the
   dictionary holds *)
Singleton_locked_check_skipped(c) ==
    /\ pc[c] = "locked_check"
    /\ pc' = [pc EXCEPT ![c] = "construct"]
    /\ UNCHANGED <<lock, _instances, constructed, instance, call, ret, monitor_vars>>

(* if cls not in cls._instances: under the lock *)
Singleton_locked_check(c) ==
    /\ pc[c] = "locked_check"
    /\ pc' = [pc EXCEPT ![c] = IF _instances = 0 THEN "construct" ELSE "release"]
    /\ UNCHANGED <<lock, _instances, constructed, instance, call, ret, monitor_vars>>

(* cls._instances[cls] = super(Singleton, cls).__call__(...):
   ValueReader.__init__ runs and the new instance is stored *)
Singleton_construct(c) ==
    /\ pc[c] = "construct"
    /\ constructed' = constructed + 1
    /\ _instances' = constructed + 1
    /\ pc' = [pc EXCEPT ![c] = "release"]
    /\ UNCHANGED <<lock, instance, call, ret, monitor_vars>>

(* with lock: left *)
Singleton_release(c) ==
    /\ pc[c] = "release"
    /\ lock = c
    /\ lock' = 0
    /\ pc' = [pc EXCEPT ![c] = "return"]
    /\ UNCHANGED <<_instances, constructed, instance, call, ret, monitor_vars>>

(* return(cls._instances[cls]) *)
Singleton_return(c) ==
    /\ pc[c] = "return"
    /\ instance' = [instance EXCEPT ![c] = _instances]
    /\ pc' = [pc EXCEPT ![c] = "done"]
    /\ UNCHANGED <<lock, _instances, constructed, call, ret, monitor_vars>>

NextSingleton ==
    \E c \in Callers :
        \/ Singleton_check(c)
        \/ Singleton_acquire(c)
        \/ Singleton_locked_check(c)
        \/ Singleton_construct(c)
        \/ Singleton_release(c)
        \/ Singleton_return(c)

SpecSingleton == InitSingleton /\ [][NextSingleton]_vars

---------------------------------------------------------------------------
(* The pure functions: div_with_try of testscreen.py and the histogram and
   profile functions of jt_cal.py, each applied once to a call drawn from a
   bounded set.  Sample values and bin populations are integers; bin edges
   are rationals. *)

MaxValue == 2
MaxData == 4
MaxBins == 3
MaxProfile == 4
MaxDelta == 2

Min(a, b) == IF a < b THEN a ELSE b
Max(a, b) == IF a > b THEN a ELSE b

Seqs(S, n) == UNION {[1..k -> S] : k \in 0..n}

SeqMin(a) == CHOOSE x \in {a[i] : i \in 1..Len(a)} : \A i \in 1..Len(a) : x <= a[i]
SeqMax(a) == CHOOSE x \in {a[i] : i \in 1..Len(a)} : \A i \in 1..Len(a) : x >= a[i]

RECURSIVE SumSeq(_)
SumSeq(a) == IF a = << >> THEN 0 ELSE Head(a) + SumSeq(Tail(a))

Reverse(a) == [i \in 1..Len(a) |-> a[Len(a) + 1 - i]]

(* Python's a[low:high] on a sequence of length n: a negative index counts from
   the end, and both indices are then clipped into 0..n *)
slice_index(i, n) == IF i < 0 THEN Max(i + n, 0) ELSE Min(i, n)

slice(a, low, high) ==
    LET lo == slice_index(low, Len(a))
        hi == slice_index(high, Len(a))
    IN  IF hi <= lo THEN << >> ELSE SubSeq(a, lo + 1, hi)

get_integrated_intensity(ave_azav, peak_bin, delta_bin) ==
    LET low == peak_bin - delta_bin
        high == peak_bin + delta_bin
    IN  SumSeq(slice(ave_azav, low, high))

(* np.histogram(a, bins): the range is (0, 1) for no data and is widened by 1/2
   on each side when all the data are equal; the edges are equally spaced; a
   sample goes to the bin its offset falls in, the last bin being closed *)
first_edge(a) ==
    IF a = << >> THEN Zero
    ELSE IF SeqMin(a) = SeqMax(a) THEN <<2 * SeqMin(a) - 1, 2>>
    ELSE Num(SeqMin(a))

last_edge(a) ==
    IF a = << >> THEN Num(1)
    ELSE IF SeqMin(a) = SeqMax(a) THEN <<2 * SeqMax(a) + 1, 2>>
    ELSE Num(SeqMax(a))

bin_edges(a, bins) ==
    LET width == RatSub(last_edge(a), first_edge(a))
    IN  [k \in 1..(bins + 1) |->
            RatAdd(first_edge(a), truediv(RatMul(Num(k - 1), width), Num(bins)))]

bin_of(x, a, bins) ==
    LET width == RatSub(last_edge(a), first_edge(a))
        t == truediv(RatMul(RatSub(Num(x), first_edge(a)), Num(bins)), width)
    IN  Min(t[1] \div t[2], bins - 1)

histogram(a, bins) ==
    [hist |-> [k \in 1..bins |->
                  Cardinality({i \in 1..Len(a) : bin_of(a[i], a, bins) = k - 1})],
     edges |-> bin_edges(a, bins)]

(* np.argmax(s < thresh * peak_val) on a non-empty s: the 0-based index of the
   first population below the limit, 0 when there is none *)
argmax_below(s, thresh, peak_val) ==
    LET below == {i \in 1..Len(s) : RatLess(Num(s[i]), RatMul(thresh, Num(peak_val)))}
    IN  IF below = {} THEN 0
        ELSE (CHOOSE i \in below : \A j \in below : i <= j) - 1

(* peak_lr: np.argmax of the empty left_array raises ValueError *)
peak_lr(array_data, thresh, bins) ==
    LET h == histogram(array_data, bins)
        hist == h.hist
        edges == h.edges
        peak_val == SeqMax(hist)
        peak_idx == (CHOOSE k \in 1..bins :
                        hist[k] = peak_val /\ \A j \in 1..(k - 1) : hist[j] # peak_val) - 1
        right == argmax_below(SubSeq(hist, peak_idx + 1, bins), thresh, peak_val) + peak_idx
        left_array == SubSeq(hist, 1, peak_idx)
        left == peak_idx - argmax_below(Reverse(left_array), thresh, peak_val)
    IN  IF left_array = << >> THEN [exc |-> "ValueError"]
        ELSE [exc |-> "none", hist |-> hist, peak_idx |-> peak_idx,
              i0_low |-> edges[left + 1], i0_high |-> edges[right + 1],
              i0_med |-> edges[peak_idx + 1]]

(* the calls explored *)
Operands == {Num(5), Num(2), <<1, 2>>, Num(-1), Zero, None}
Thresholds == {<<1, 10>>, <<1, 2>>, Num(1)}

DivCalls == {[fn |-> "div_with_try", v1 |-> a, v2 |-> b] : a \in Operands, b \in Operands}

IntensityCalls ==
    {[fn |-> "get_integrated_intensity", ave_azav |-> a, peak_bin |-> p, delta_bin |-> d] :
        a \in Seqs(1..2, MaxProfile) \ {<< >>}, p \in 0..(MaxProfile - 1), d \in 0..MaxDelta}

PeakCalls ==
    {[fn |-> "peak_lr", array_data |-> a, threshold |-> t, bins |-> b] :
        a \in Seqs(0..MaxValue, MaxData), t \in Thresholds, b \in 1..MaxBins}

InitPure ==
    /\ MonitorInit(FALSE, NoBands)
    /\ call \in DivCalls \cup IntensityCalls \cup PeakCalls
    /\ ret = NoRet
    /\ SingletonConstructed

call_div_with_try ==
    /\ call.fn = "div_with_try" /\ ret = NoRet
    /\ ret' = [exc |-> "none", val |-> div_with_try(call.v1, call.v2)]
    /\ UNCHANGED <<call, monitor_vars, singleton_vars>>

call_get_integrated_intensity ==
    /\ call.fn = "get_integrated_intensity" /\ ret = NoRet
    /\ ret' = [exc |-> "none",
               val |-> get_integrated_intensity(call.ave_azav, call.peak_bin,
                                                call.delta_bin)]
    /\ UNCHANGED <<call, monitor_vars, singleton_vars>>

call_peak_lr ==
    /\ call.fn = "peak_lr" /\ ret = NoRet
    /\ ret' = peak_lr(call.array_data, call.threshold, call.bins)
    /\ UNCHANGED <<call, monitor_vars, singleton_vars>>

NextPure ==
    \/ call_div_with_try
    \/ call_get_integrated_intensity
    \/ call_peak_lr

SpecPure == InitPure /\ [][NextPure]_vars

---------------------------------------------------------------------------
(* Properties of the streaming monitor *)

Missed == <<"warning, missed shots, realigning in **", "red">>
Dropped == <<"lots of dropped shots", "yellow">>
LowIntensity == <<"low intensity, realigning in ***", "orange">>
Good == <<"everything is good", "green">>
NotCalibrated == <<"not calibrated", "orange">>

(* the number of non-zero entries of a flagged-event buffer *)
Flagged(key) == Len(SelectSeq(flaggedEvents[key], LAMBDA x : x # Zero))
Over(key) == Flagged(key) > notification_tolerance

(* the step just taken re-evaluated the status *)
StatusEvaluated == step = "run_ingest" /\ emitted.avevalues

(* C1: when calibrated, every status re-evaluation reports exactly one status,
   chosen by strict priority over the counts of non-zero entries of the three
   flagged-event buffers: missed shot (red) when its count exceeds the tolerance,
   else dropped shot (yellow), else low intensity (orange), else healthy (green). *)
C1_StatusPriority ==
    (StatusEvaluated /\ calibrated) =>
        /\ emitted.status \in {Missed, Dropped, LowIntensity, Good}
        /\ emitted.status = Missed <=> Over("missed shot")
        /\ emitted.status = Dropped <=> ~Over("missed shot") /\ Over("dropped shot")
        /\ emitted.status = LowIntensity <=>
              ~Over("missed shot") /\ ~Over("dropped shot") /\ Over("low intensity")
        /\ emitted.status = Good <=>
              ~Over("missed shot") /\ ~Over("dropped shot") /\ ~Over("low intensity")

(* all three counts exceed the tolerance at a re-evaluation *)
C1_Witness ==
    /\ StatusEvaluated /\ calibrated
    /\ Over("missed shot") /\ Over("dropped shot") /\ Over("low intensity")
    /\ emitted.status = Missed

(* C2: while no calibration pass has completed, every status re-evaluation
   reports the uncalibrated status whatever the flagged-event buffers hold, and
   no other status is emitted. *)
C2_UncalibratedStatus ==
    ~calibrated =>
        /\ StatusEvaluated => emitted.status = NotCalibrated
        /\ emitted.status \in {NoStatus, NotCalibrated}

(* an uncalibrated re-evaluation over buffers whose counts exceed the tolerance *)
C2_Witness ==
    /\ StatusEvaluated /\ ~calibrated
    /\ Over("dropped shot") /\ Over("low intensity")
    /\ emitted.status = NotCalibrated

(* the time buffer after count ingestions at ticks 0, 1, ...: the last
   buffer_size ticks, after the initial zeros that are left *)
LastTicks ==
    [i \in 1..buffer_size |->
        IF count - buffer_size + i - 1 >= 0 THEN Num(count - buffer_size + i - 1)
        ELSE Zero]

Shifted(old, new) ==
    /\ Len(new) = buffer_size
    /\ new = old \/ SubSeq(new, 1, buffer_size - 1) = Tail(old)

(* C3: every rolling buffer has length exactly the capacity in every state; an
   append evicts the oldest entry and puts the new value last, keeping the
   order of the others, so that after n appends the buffer holds the last
   min(n, capacity) appended values after the initial zeros that are left. *)
C3_RollingBuffers ==
    /\ [](/\ \A k \in AvgKeys : Len(averages[k]) = buffer_size
          /\ \A k \in FlagKeys : Len(flaggedEvents[k]) = buffer_size
          /\ \A k \in BufKeys : Len(buffers[k]) = buffer_size
          /\ (mode = "running" /\ thread # "crashed") => buffers["time"] = LastTicks)
    /\ [][/\ \A k \in AvgKeys : Shifted(averages[k], averages'[k])
          /\ \A k \in FlagKeys : Shifted(flaggedEvents[k], flaggedEvents'[k])
          /\ \A k \in BufKeys : Shifted(buffers[k], buffers'[k])
          /\ count' = count + 1 =>
                /\ buffers'["i0"] = Tail(buffers["i0"]) \o <<new_values'.gatt>>
                /\ buffers'["diff"] = Tail(buffers["diff"]) \o <<new_values'.diff>>]_vars

(* more values than the capacity have been appended to the data buffers *)
C3_Witness ==
    /\ count > buffer_size /\ thread = "run"
    /\ buffers["time"][1] # Zero
    /\ Len(buffers["i0"]) = buffer_size

(* the flagged-event buffer of each quantity *)
FlagOf(q) ==
    CASE q = "ratio" -> "low intensity"
      [] q = "i0" -> "dropped shot"
      [] q = "diff" -> "missed shot"

(* the step just taken ran event_flagging on the shot it ingested *)
EventFlagged ==
    /\ step = "run_ingest" /\ count > buffer_size
    /\ run_ratio_exc(buffers) = "none"

BelowBand(q) ==
    RatLess(Last(buffers[q]),
            RatSub(calibration_values[q].mean,
                   RatMul(sigma, calibration_values[q].stdev)))

(* C4: in every event-flagging step, for each of ratio, i0 and diff the entry
   appended to its flagged-event buffer marks the shot as flagged (is not 0)
   exactly when the latest sample is strictly below mean - sigma*stdev. *)
C4_FlaggedIffBelow ==
    EventFlagged =>
        \A q \in Quantities : Last(flaggedEvents[FlagOf(q)]) # Zero <=> BelowBand(q)

(* C5: the value appended to a quantity's flagged-event buffer is that
   quantity's own latest sample when it is below its threshold, and 0 otherwise. *)
C5_OwnOffendingValue ==
    EventFlagged =>
        \A q \in Quantities :
            Last(flaggedEvents[FlagOf(q)]) =
                IF BelowBand(q) THEN Last(buffers[q]) ELSE Zero

(* diff / i0, with 0 for a zero or non-numeric i0 or a non-numeric diff *)
RatioOf(r) ==
    IF IsNum(r.gatt) /\ IsNum(r.diff) /\ r.gatt # Zero
    THEN CHOOSE x \in {Norm(r.diff[1] * r.gatt[2], r.diff[2] * r.gatt[1])} :
            RatMul(x, r.gatt) = r.diff
    ELSE Zero

(* C6: every running-mode ingestion step appends diff / i0 to the ratio buffer,
   0 for a zero or non-numeric i0, and no sample makes the step fail. *)
C6_RatioWithFallback ==
    step = "run_ingest" =>
        /\ exc \notin {"ZeroDivisionError", "TypeError"}
        /\ thread = "run" => Last(buffers["ratio"]) = RatioOf(new_values)

(* C11: initially mode is running and calibrated is false; mode leaves running
   only through a calibration request; mode leaves calibration only when a
   calibration pass completes, with calibrated true at that transition; and
   calibrated becomes true at no other point, in particular not when a pass
   fails to compute its bands. *)
C11_ModeStateMachine ==
    /\ mode = "running" /\ ~calibrated
    /\ [][/\ (mode = "running" /\ mode' # "running") =>
                (step' = "_calibrate" /\ mode' = "calibration")
          /\ (mode = "calibration" /\ mode' # "calibration") =>
                /\ step' = "calibrate_stats2" /\ exc' = "none"
                /\ mode' = "running" /\ calibrated'
          /\ (~calibrated /\ calibrated') =>
                /\ step' = "calibrate_stats2" /\ exc' = "none"
                /\ mode = "calibration" /\ mode' = "running"]_vars

(* a calibration request was made and the pass has failed to compute its bands *)
C11_Witness ==
    /\ mode = "calibration" /\ thread = "crashed" /\ ~calibrated
    /\ step = "calibrate_stats2" /\ exc = "StatisticsError"

(* a reading's own value of a quantity *)
SampleOf(r, q) ==
    CASE q = "i0" -> Get(r, i0_rdbutton_selection)
      [] q = "diff" -> Get(r, "diff")
      [] q = "ratio" -> div_with_try(Get(r, "diff"), Get(r, i0_rdbutton_selection))

(* C12: in phase 2 of a calibration pass a sample of each quantity is retained
   exactly when its own value is >= the phase-1 mean - 2 * the phase-1 stdev of
   that quantity, and the bands in force after the pass are the mean and stdev
   of the retained samples. *)
C12_Phase2Filter ==
    [][/\ step' = "calibrate_sample2" =>
            \A q \in Quantities :
                cal_values'[CalIndex(q)] =
                    IF RatGeq(SampleOf(new_values, q), low_bound(calibration_values, q))
                    THEN Append(cal_values[CalIndex(q)], SampleOf(new_values, q))
                    ELSE cal_values[CalIndex(q)]
       /\ (step' = "calibrate_stats2" /\ mode' = "running") =>
            \A q \in Quantities :
                calibration_values'[q] = [mean |-> mean(cal_values[CalIndex(q)]),
                                          stdev |-> stdev(cal_values[CalIndex(q)])]]_vars

(* C13: every sample a calibration pass collects, in both phases, is the value
   the source holds at that sampling tick. *)
C13_FreshSamples ==
    [][step' \in {"calibrate_sample1", "calibrate_sample2"} =>
          /\ Len(cal_values'[1]) > Len(cal_values[1]) =>
                Last(cal_values'[1]) = SampleOf(source, "i0")
          /\ Len(cal_values'[2]) > Len(cal_values[2]) =>
                Last(cal_values'[2]) = SampleOf(source, "diff")
          /\ Len(cal_values'[3]) > Len(cal_values[3]) =>
                Last(cal_values'[3]) = SampleOf(source, "ratio")]_vars

(* C14: after a stop request the thread starts no new iteration of the loop of
   run (it may finish the one in progress, a calibration pass included), it
   then terminates, and _stop returns only once the thread has terminated. *)
C14_StopJoins ==
    /\ [][/\ interruption => step' \notin {"run_ingest", "run_calibrate"}
          /\ step' = "_stop_return" => (thread = "finished" /\ thread' = "finished")
          /\ (step' = "_stop" /\ gui' = "ready") => thread' \in {"idle", "finished"}]_vars
    /\ [](gui = "waiting" => (interruption \/ thread \in {"finished", "crashed"}))
    /\ (interruption ~> thread \in {"finished", "crashed"})

(* _stop has returned from its wait on a thread that it interrupted *)
C14_Witness ==
    /\ step = "_stop_return" /\ gui = "ready"
    /\ thread = "finished" /\ ~interruption

(* the step appended one value to each averages buffer and re-evaluated the
   status *)
Averaged ==
    /\ \A k \in AvgKeys :
          averages'[k] = deque_append(averages[k], Last(averages'[k]), buffer_size)
    /\ emitted'.avevalues /\ emitted'.status # NoStatus

(* the step appended no average and emitted no status *)
NotAveraged ==
    /\ averages' = averages
    /\ ~emitted'.avevalues /\ emitted'.status = NoStatus

(* C15: an ingestion step in running mode is an averaging step, appending one
   value to each averages buffer and re-evaluating the status once, exactly
   when the number of samples ingested so far is a multiple of nsamp; every
   other ingestion step appends no average and emits no status. *)
C15_AveragingSteps ==
    [][step' = "run_ingest" =>
          IF count' % nsamp = 0 THEN Averaged ELSE NotAveraged]_vars

(* the shots of the current window: the samples of a data buffer that were
   ingested, without the initial zeros that are left *)
WindowStart == buffer_size - Min(count, buffer_size) + 1

(* the samples of quantity q, from index i on, of the shots of the window whose
   i0 sample is not below the i0 threshold *)
RECURSIVE KeptFrom(_, _)
KeptFrom(i, q) ==
    IF i > buffer_size THEN << >>
    ELSE IF RatLess(buffers["i0"][i], threshold(calibration_values, sigma, "i0"))
    THEN KeptFrom(i + 1, q)
    ELSE <<buffers[q][i]>> \o KeptFrom(i + 1, q)

(* C16: at every averaging step the mean appended for each of i0, diff and
   ratio is the mean over exactly the shots of the current window whose i0
   sample is not below its band threshold. *)
C16_MeanOfKeptShots ==
    StatusEvaluated =>
        \A q \in Quantities :
            KeptFrom(WindowStart, q) # << >> =>
                Last(averages["average " \o q]) = mean(KeptFrom(WindowStart, q))

(* C18: in every reachable state sigma is within [0.1, 5], nsamp within
   [5, 300] and samprate within [2, 300], whatever values the sigmaval,
   nsampval and samprate signals deliver. *)
C18_RangesEnforced ==
    /\ RatGeq(sigma, Norm(1, 10)) /\ RatGeq(Num(5), sigma)
    /\ nsamp >= 5 /\ nsamp <= 300
    /\ samprate >= 2 /\ samprate <= 300

(* the ingestion step reached its call of event_flagging and appended one
   entry to each flagged-event buffer *)
FlagsAppended ==
    /\ run_ratio_exc(buffers') = "none"
    /\ \A k \in FlagKeys :
          flaggedEvents'[k] = Tail(flaggedEvents[k]) \o <<Last(flaggedEvents'[k])>>

(* C19: an ingestion step runs event flagging exactly when at least capacity
   samples were ingested before it: each of the first capacity samples leaves
   the three flagged-event buffers unchanged, all zeros, and every later
   sample appends one entry to each of them. *)
C19_FlaggingAfterFirstFill ==
    [][step' = "run_ingest" =>
          IF count < buffer_size
          THEN /\ flaggedEvents' = flaggedEvents
               /\ \A k \in FlagKeys : flaggedEvents'[k] = Zeros(buffer_size)
          ELSE FlagsAppended]_vars

(* the steps of a loop iteration made in calibration mode *)
CalibrationSteps ==
    {"run_calibrate", "calibrate_sample1", "calibrate_stats1",
     "calibrate_sample2", "calibrate_stats2"}

(* C20: samples are ingested only in running mode: a loop iteration made in
   calibration mode leaves the data buffers, the flagged-event buffers, the
   averages buffers and count unchanged and emits no buffers, averages or
   status, and every iteration made in running mode increases count by one. *)
C20_IngestionOnlyWhenRunning ==
    [][/\ step' \in CalibrationSteps =>
            /\ mode = "calibration"
            /\ buffers' = buffers /\ flaggedEvents' = flaggedEvents
            /\ averages' = averages /\ count' = count
            /\ ~emitted'.buffers /\ ~emitted'.avevalues /\ emitted'.status = NoStatus
       /\ step' = "run_ingest" => (mode = "running" /\ count' = count + 1)
       /\ (\/ buffers' # buffers \/ flaggedEvents' # flaggedEvents
           \/ averages' # averages \/ count' # count) =>
            (step' = "run_ingest" /\ mode = "running")]_vars

(* samples were ingested in running mode and a calibration pass is sampling *)
C20_Witness ==
    /\ step = "calibrate_sample1" /\ mode = "calibration"
    /\ count > 0 /\ buffers["i0"] # Zeros(buffer_size)
    /\ Len(cal_values[1]) > 0

(* C21: every calibration pass terminates: once the mode is calibration with
   the thread running and not asked to stop, each phase ends at its deadline
   and the monitor is eventually back in running mode with the thread alive. *)
C21_CalibrationTerminates ==
    (mode = "calibration" /\ thread = "run" /\ ~interruption)
        ~> ((mode = "running" /\ thread = "run") \/ interruption)

(* the step just taken ingested a sample, its division succeeded and an
   averaging step was due *)
AveragingDue ==
    /\ step = "run_ingest" /\ run_ratio_exc(buffers) = "none"
    /\ nsamp # 0 /\ count % nsamp = 0

(* C22: whenever an averaging step is due, the window entries not marked as
   dropped are not empty, the means are computed and the thread goes on
   running. *)
C22_AveragingDefined ==
    AveragingDue =>
        /\ skimmer("dropped shot", buffers["i0"], flaggedEvents) # << >>
        /\ exc # "StatisticsError"
        /\ emitted.avevalues

(* the number, among the shots ingested, of the shot held at index i of the
   data buffers; not positive for an initial zero *)
ShotAt(i) == count - buffer_size + i

(* the entries at index i of the flagged-event buffers belong to the shot at
   index i of the data buffers: all 0 for a shot ingested before the first
   fill, else each 0 or the value event_flagging records for that shot *)
AlignedAt(i) ==
    IF ShotAt(i) <= buffer_size
    THEN \A k \in FlagKeys : flaggedEvents[k][i] = Zero
    ELSE /\ flaggedEvents["dropped shot"][i] \in {Zero, buffers["i0"][i]}
         /\ flaggedEvents["missed shot"][i] \in {Zero, buffers["i0"][i]}
         /\ flaggedEvents["low intensity"][i] \in {Zero, buffers["ratio"][i]}

(* C23: in every state, for every index the entries of the flagged-event
   buffers were produced by flagging the shot held at the same index of the
   data buffers, or are the initial 0 when that shot was ingested before the
   first fill or the slot still holds its initial zero. *)
C23_FlagsAligned == \A i \in 1..buffer_size : AlignedAt(i)

(* C17: under any interleaving of concurrent calls of ValueReader(...), the
   constructor runs once and every caller is returned the same one instance;
   at no point do two instances exist. *)
C17_OneInstance ==
    /\ constructed <= 1
    /\ \A c \in Callers :
          pc[c] = "done" => (constructed = 1 /\ instance[c] = 1 /\ _instances = 1)

(* a caller that found no instance at its first test holds the lock after
   another caller has constructed the instance and has returned it *)
C17_Witness ==
    \E c, d \in Callers :
        /\ c # d
        /\ pc[c] = "locked_check" /\ lock = c
        /\ pc[d] = "done" /\ instance[d] = 1
        /\ constructed = 1 /\ _instances = 1

---------------------------------------------------------------------------
(* Properties of the pure functions *)

Returned(fn) == call.fn = fn /\ ret # NoRet

(* C7: div_with_try(v1, v2) returns v1 / v2 whenever v2 is a non-zero number
   (and v1 a number), and returns 0 without raising whenever v2 is zero or
   either operand is not a number. *)
C7_DivWithFallback ==
    Returned("div_with_try") =>
        /\ ret.exc = "none"
        /\ IF IsNum(call.v1) /\ IsNum(call.v2) /\ call.v2[1] # 0
           THEN IsNum(ret.val) /\ RatMul(ret.val, call.v2) = call.v1
           ELSE ret.val = Zero

(* 5 / 2 has returned 5/2, 5 / 0 has returned 0, or 5 / None has returned 0 *)
C7_Witness ==
    /\ Returned("div_with_try") /\ call.v1 = Num(5)
    /\ \/ call.v2 = Num(2) /\ ret.val = <<5, 2>>
       \/ call.v2 = Zero /\ ret.val = Zero
       \/ call.v2 = None /\ ret.val = Zero

(* C8: get_integrated_intensity returns the sum of the profile entries whose
   0-based index i satisfies max(0, peak_bin - delta_bin) <= i <
   min(len(profile), peak_bin + delta_bin), and never raises. *)
C8_ClippedWindow ==
    Returned("get_integrated_intensity") =>
        /\ ret.exc = "none"
        /\ LET a == call.ave_azav
               lo == Max(0, call.peak_bin - call.delta_bin)
               hi == Min(Len(a), call.peak_bin + call.delta_bin)
           IN  ret.val = SumSeq([k \in 1..(hi - lo) |-> a[lo + k]])

(* C9: for every histogram of at least one sample, wherever its most-populated
   bin lies, peak_lr returns normally with i0_low <= i0_med <= i0_high, i0_med
   being the edge of the peak bin. *)
C9_PeakLrOrdered ==
    (Returned("peak_lr") /\ call.array_data # << >>) =>
        /\ ret.exc = "none"
        /\ ~RatLess(ret.i0_med, ret.i0_low)
        /\ ~RatLess(ret.i0_high, ret.i0_med)
        /\ ret.i0_med = bin_edges(call.array_data, call.bins)[ret.peak_idx + 1]

(* C24: for every histogram with a positive peak count and a threshold in
   (0, 1], the interval peak_lr returns contains the peak bin: i0_low <=
   edges[peak_idx] < i0_high, also when no bin to the right of the peak has a
   population below threshold * peak_count. *)
C24_PeakBinInside ==
    (Returned("peak_lr") /\ call.array_data # << >> /\ ret.exc = "none") =>
        LET peak_edge == bin_edges(call.array_data, call.bins)[ret.peak_idx + 1]
        IN  /\ ~RatLess(peak_edge, ret.i0_low)
            /\ RatLess(peak_edge, ret.i0_high)

====
